---- MODULE Spec2Model ----
(***************************************************************************)
(* Model of the MCP HTTP front end of google-calendar-streamable-mcp-server *)
(*                                                                         *)
(*   src/unnamed/part_000  createMcpSecurityMiddleware (the Security Gate) *)
(*   src/unnamed/part_002  buildMcpRoutes (POST / GET / DELETE handlers,   *)
(*                         ensureConnected, the transports registry)       *)
(*   src/unnamed/part_002  parseAuthorizeInput, buildTokenInput            *)
(*   src/unnamed/part_001  createDiscoveryHandlers and its strategies      *)
(*   src/src/http/auth-app.ts  the auth app's metadata endpoint            *)
(*                                                                         *)
(* JavaScript strings are modelled as sequences of atoms: an atom is       *)
(* either one whitespace character (" " or "\t") or a word without         *)
(* whitespace.  Concatenation of strings is \o, so "Bearer rsA" is         *)
(* <<"Bearer", " ", "rsA">>.  The JavaScript value undefined of an         *)
(* optional string is the one-atom sequence Undefined.                     *)
(***************************************************************************)
EXTENDS Integers, Sequences, FiniteSets, TLC

VARIABLES
    gateConfig,          \* SpecGate: the UnifiedConfig the middleware closed over
    gateRequest,         \* SpecGate: the request given to the middleware; pending while the store lookup is awaited
    gateResult,          \* SpecGate: what the middleware did with it
    config,              \* routes: the UnifiedConfig of the running server
    request,             \* routes: request[r], the inbound HTTP request of slot r
    pc,                  \* routes: pc[r], where the handler of request r stands
    gate,                \* routes: gate[r], the middleware's result for request r
    held,                \* routes: held[r], the transport the handler of r holds
    response,            \* routes: response[r], the response the handler returned
    retrieved,           \* routes: retrieved[r], the context the protocol handler read
    transports,          \* routes: the Map session id -> transport
    connectedTransports, \* routes: the WeakSet of connected transports
    contextRegistry,     \* routes: the Map request id -> request context
    tstate,              \* routes: tstate[t], the state of transport object t
    tokenForm,           \* SpecToken: the form given to buildTokenInput
    tokenInput,          \* SpecToken: what buildTokenInput returned for it
    authorizeUrl,        \* SpecAuthorize: the URL given to parseAuthorizeInput
    authorizeInput,      \* SpecAuthorize: what parseAuthorizeInput returned
    discoveryRequest,    \* SpecDiscovery: the configuration and request URL
    discoveryMetadata    \* SpecDiscovery: the authorization-server metadata served

gateVars == <<gateConfig, gateRequest, gateResult>>
routeVars == <<config, request, pc, gate, held, response, retrieved,
               transports, connectedTransports, contextRegistry, tstate>>
oauthVars == <<tokenForm, tokenInput, authorizeUrl, authorizeInput,
               discoveryRequest, discoveryMetadata>>
vars == <<gateVars, routeVars, oauthVars>>

-----------------------------------------------------------------------------
(* Bounds *)

\* longest Authorization header value, in atoms, the gate is tried on
MaxHdrLen == 4
\* number of requests one behaviour of the routes carries
MaxReq == 2
\* largest JSON-RPC id a POST body carries (ids are 0..MaxRpcId)
MaxRpcId == 1
\* number of requests one behaviour of the session runs carries
MaxSessReq == 4
\* number of requests one behaviour of the two-session runs carries
MaxPairReq == 3
\* largest number of name=value pairs of a token request form
MaxFormLen == 4
\* largest number of name=value pairs of an authorize query string
MaxQueryLen == 3

-----------------------------------------------------------------------------
(* JavaScript strings *)

Undefined == <<"undefined">>
EmptyStr == <<>>
Whitespace == {" ", "\t"}

\* JavaScript truthiness of an optional string
Truthy(s) == s # Undefined /\ s # EmptyStr

\* a ?? b
Coalesce(a, b) == IF a # Undefined THEN a ELSE b

\* a || b
OrElse(a, b) == IF Truthy(a) THEN a ELSE b

Min(a, b) == IF a <= b THEN a ELSE b

RECURSIVE SplitAll(_, _)
\* String.prototype.split(sep) for a one-character separator: every piece
SplitAll(s, sep) ==
    IF \A i \in 1..Len(s) : s[i] # sep
    THEN <<s>>
    ELSE LET i == CHOOSE k \in 1..Len(s) :
                      s[k] = sep /\ \A j \in 1..(k - 1) : s[j] # sep
         IN  <<SubSeq(s, 1, i - 1)>> \o SplitAll(SubSeq(s, i + 1, Len(s)), sep)

\* String.prototype.split(sep, limit): the first `limit` pieces
Split(s, sep, limit) ==
    LET pieces == SplitAll(s, sep)
    IN  SubSeq(pieces, 1, Min(limit, Len(pieces)))

RECURSIVE TrimStart(_)
TrimStart(s) ==
    IF s # <<>> /\ Head(s) \in Whitespace THEN TrimStart(Tail(s)) ELSE s

RECURSIVE TrimEnd(_)
TrimEnd(s) ==
    IF s # <<>> /\ s[Len(s)] \in Whitespace
    THEN TrimEnd(SubSeq(s, 1, Len(s) - 1))
    ELSE s

\* String.prototype.trim()
Trim(s) == TrimEnd(TrimStart(s))

LowerAtom(a) ==
    CASE a \in {"Bearer", "BEARER", "bearer"} -> "bearer"
      [] a \in {"Basic", "basic"} -> "basic"
      [] a = "rsA" -> "rsa"
      [] a = "rsB" -> "rsb"
      [] OTHER -> a

\* String.prototype.toLowerCase(); a piece of two words is one longer word
ToLowerCase(s) == [i \in 1..Len(s) |-> LowerAtom(s[i])]

-----------------------------------------------------------------------------
(* URLs: new URL(x) as a record; port 0 is the empty port string *)

NoUrl == [protocol |-> "", hostname |-> "", port |-> 0]
RequestUrl == [protocol |-> "http:", hostname |-> "127.0.0.1", port |-> 3000]
ResourceUri == [protocol |-> "https:", hostname |-> "mcp.example.com", port |-> 0]

\* URL.prototype.origin
UrlOrigin(u) == [protocol |-> u.protocol, hostname |-> u.hostname, port |-> u.port]

-----------------------------------------------------------------------------
(* The Credential Store read by the gate (getTokenStore().getByRsAccess) *)

NoProvider == [access_token |-> Undefined, refresh_token |-> Undefined]
NoRecord == [provider |-> NoProvider]

\* the resource-server tokens the store holds a record for
StoredRsTokens == {<<"rsA">>, <<"rsB">>}

\* store.getByRsAccess(bearer) when the store answers
getByRsAccess(bearer) ==
    CASE bearer = <<"rsA">> ->
            [provider |-> [access_token |-> <<"provA">>, refresh_token |-> <<"refreshA">>]]
      [] bearer = <<"rsB">> ->
            [provider |-> [access_token |-> <<"provB">>, refresh_token |-> Undefined]]
      [] OTHER -> NoRecord

-----------------------------------------------------------------------------
(* shared/mcp/security.js: validators and the challenge builder *)

AllowedOrigins == {<<"https://app.example">>}

\* validateOrigin(headers, isDev): TRUE when it returns, FALSE when it throws
validateOrigin(headers, isDev) ==
    isDev \/ headers.origin = Undefined \/ headers.origin \in AllowedOrigins

\* validateProtocolVersion(headers, expected): TRUE when it returns
validateProtocolVersion(headers, expected) ==
    headers.protocolVersion = Undefined \/ headers.protocolVersion = expected

NoChallenge == [origin |-> UrlOrigin(NoUrl), sid |-> Undefined]

\* buildUnauthorizedChallenge({origin, sid})
buildUnauthorizedChallenge(origin, sid) ==
    [status |-> 401,
     wwwAuthenticate |-> [origin |-> origin, sid |-> sid],
     body |-> "challenge"]

-----------------------------------------------------------------------------
(* createMcpSecurityMiddleware *)

NoAuthContext ==
    [strategy |-> "undefined",
     authHeaders |-> [authorization |-> Undefined],
     resolvedHeaders |-> [authorization |-> Undefined],
     providerToken |-> Undefined,
     provider |-> NoProvider,
     rsToken |-> Undefined]

\* return next()
GateNext(authContext, lookups) ==
    [outcome |-> "next", status |-> 0, body |-> "", sessionId |-> Undefined,
     wwwAuthenticate |-> NoChallenge, authContext |-> authContext,
     lookups |-> lookups]

\* c.header('Mcp-Session-Id', sid); c.header('WWW-Authenticate', ...);
\* return c.json(challenge.body, challenge.status)
GateChallenge(cfg, sid, lookups) ==
    LET origin == IF cfg.AUTH_RESOURCE_URI # NoUrl
                  THEN UrlOrigin(cfg.AUTH_RESOURCE_URI)
                  ELSE UrlOrigin(RequestUrl)
        challenge == buildUnauthorizedChallenge(origin, sid)
    IN  [outcome |-> "json", status |-> challenge.status, body |-> challenge.body,
         sessionId |-> sid, wwwAuthenticate |-> challenge.wwwAuthenticate,
         authContext |-> NoAuthContext, lookups |-> lookups]

\* the outer catch: 500 with the JSON-RPC error -32603
GateInternalError ==
    [outcome |-> "json", status |-> 500, body |-> "error -32603",
     sessionId |-> Undefined, wwwAuthenticate |-> NoChallenge,
     authContext |-> NoAuthContext, lookups |-> 0]

\* const [scheme, rsToken] = auth.split(' ', 2);
\* scheme && scheme.toLowerCase() === 'bearer' ? (rsToken || '').trim() : ''
BearerOf(auth) ==
    LET parts == Split(auth, " ", 2)
        scheme == IF Len(parts) >= 1 THEN parts[1] ELSE Undefined
        rsToken == IF Len(parts) >= 2 THEN parts[2] ELSE Undefined
    IN  IF Truthy(scheme) /\ ToLowerCase(scheme) = <<"bearer">>
        THEN Trim(OrElse(rsToken, EmptyStr))
        ELSE EmptyStr

\* the authContext with the resolved header built from the inbound token
BuildAuthContextFromRsToken(cfg, auth, bearer, provider) ==
    [strategy |-> cfg.AUTH_STRATEGY,
     authHeaders |-> [authorization |-> auth],
     resolvedHeaders |-> [authorization |-> <<"Bearer", " ">> \o bearer],
     providerToken |-> provider.access_token,
     provider |-> provider,
     rsToken |-> bearer]

\* the authContext object built when the store has a provider record
BuildAuthContext(cfg, auth, bearer, provider) ==
    [strategy |-> cfg.AUTH_STRATEGY,
     authHeaders |-> [authorization |-> auth],
     resolvedHeaders |-> [authorization |-> <<"Bearer", " ">> \o provider.access_token],
     providerToken |-> provider.access_token,
     provider |-> provider,
     rsToken |-> bearer]

\* the branch on a non-empty bearer: the inner try / catch
GateBearer(cfg, headers, auth, bearer, storeThrows, uuid) ==
    IF storeThrows
    THEN GateNext(NoAuthContext, 1)
    ELSE LET provider == getByRsAccess(bearer).provider
         IN  IF provider # NoProvider
             THEN GateNext(BuildAuthContext(cfg, auth, bearer, provider), 1)
             ELSE IF cfg.AUTH_REQUIRE_RS /\ ~cfg.AUTH_ALLOW_DIRECT_BEARER
                  THEN GateChallenge(cfg, Coalesce(headers.sessionId, uuid), 1)
                  ELSE GateNext(NoAuthContext, 1)

\* the middleware after the two validators returned: lines 24-106
GateAuthenticate(cfg, headers, storeThrows, uuid) ==
    IF ~cfg.AUTH_ENABLED
    THEN GateNext(NoAuthContext, 0)
    ELSE LET auth == headers.authorization
         IN  IF ~Truthy(auth)
             THEN GateChallenge(cfg, OrElse(headers.sessionId, uuid), 0)
             ELSE LET bearer == BearerOf(auth)
                  IN  IF Truthy(bearer)
                      THEN GateBearer(cfg, headers, auth, bearer, storeThrows, uuid)
                      ELSE GateNext(NoAuthContext, 0)

\* the middleware without its validators
GateSkipsValidation(cfg, headers, storeThrows, uuid) ==
    GateAuthenticate(cfg, headers, storeThrows, uuid)

\* the middleware on one request: headers are the request's headers,
\* storeThrows says whether store.getByRsAccess rejects, uuid is what
\* randomUUID() would return
Gate(cfg, headers, storeThrows, uuid) ==
    IF ~validateOrigin(headers, cfg.NODE_ENV = "development")
       \/ ~validateProtocolVersion(headers, cfg.MCP_PROTOCOL_VERSION)
    THEN GateInternalError
    ELSE GateAuthenticate(cfg, headers, storeThrows, uuid)

-----------------------------------------------------------------------------
(* Requests, transports and the registries of buildMcpRoutes *)

Requests == 1..MaxReq

\* transport objects: request r constructs transport r; 0 is `undefined`
NoTransport == 0

NoHeaders ==
    [origin |-> Undefined, protocolVersion |-> Undefined,
     authorization |-> Undefined, sessionId |-> Undefined]

\* body of a request: parsed is FALSE when c.req.json() threw (body undefined)
NoBody == [parsed |-> FALSE, method |-> "", hasId |-> FALSE, id |-> 0]

NoRequest == [method |-> "none", headers |-> NoHeaders, body |-> NoBody]

NoResponse == [by |-> "none", status |-> 0, body |-> "", sessionId |-> Undefined]

\* c.json({jsonrpc, error: {code: -32000, message: 'Method not allowed - no session'}}, 405)
MethodNotAllowed ==
    [by |-> "route", status |-> 405, body |-> "error -32000", sessionId |-> Undefined]

\* c.text('Invalid session', 404)
InvalidSession ==
    [by |-> "route", status |-> 404, body |-> "Invalid session", sessionId |-> Undefined]

\* c.json({jsonrpc, error: {code: -32603, message: 'Internal server error'}}, 500)
InternalServerError ==
    [by |-> "route", status |-> 500, body |-> "error -32603", sessionId |-> Undefined]

\* the response the middleware returned itself
GateResponse(g) ==
    [by |-> "gate", status |-> g.status, body |-> g.body, sessionId |-> g.sessionId]

\* toFetchResponse(res): whatever the transport wrote
TransportResponse(body, sid) ==
    [by |-> "transport", status |-> 200, body |-> body, sessionId |-> sid]

\* randomUUID() as called while request r is handled
randomUUID(r) == <<"uuid-" \o ToString(r)>>

NoTransportState ==
    [created |-> FALSE, sessionIdGenerator |-> Undefined,
     onsessioninitialized |-> FALSE, initialized |-> FALSE,
     sessionId |-> Undefined, connects |-> 0, dispatches |-> 0, closes |-> 0,
     dispatchedClosed |-> FALSE]

\* new StreamableHTTPServerTransport({sessionIdGenerator, onsessioninitialized})
NewTransport(isInitialize, plannedSid) ==
    [NoTransportState EXCEPT
        !.created = TRUE,
        !.sessionIdGenerator = IF isInitialize THEN plannedSid ELSE Undefined,
        !.onsessioninitialized = isInitialize]

NoHeld == [transport |-> NoTransport, connectCalled |-> FALSE, dispatched |-> FALSE]

NoContext == [found |-> FALSE, sessionId |-> Undefined, auth |-> NoAuthContext, owner |-> 0]

\* what the protocol handler of a request read from the context registry
NoLookup == [looked |-> FALSE, context |-> NoContext]

NoGate == [outcome |-> "none", status |-> 0, body |-> "", sessionId |-> Undefined,
           wwwAuthenticate |-> NoChallenge, authContext |-> NoAuthContext,
           lookups |-> 0]

\* Map.prototype.get
MapGet(map, key) == IF key \in DOMAIN map THEN map[key] ELSE NoTransport

\* Map.prototype.set
MapSet(map, key, value) == [k \in DOMAIN map \cup {key} |-> IF k = key THEN value ELSE map[k]]

\* Map.prototype.delete
MapDelete(map, key) == [k \in DOMAIN map \ {key} |-> map[k]]

\* contextRegistry.create(requestId, sessionId, authData); owner is a ghost
\* field naming the request that created the entry
ContextCreate(registry, id, sessionId, authContext, owner) ==
    [k \in DOMAIN registry \cup {id} |->
        IF k = id
        THEN [found |-> TRUE, sessionId |-> sessionId, auth |-> authContext, owner |-> owner]
        ELSE registry[k]]

\* contextRegistry.get(requestId)
ContextGet(registry, id) == IF id \in DOMAIN registry THEN registry[id] ELSE NoContext

\* Boolean(body && body.method === 'initialize')
IsInitialize(body) == body.parsed /\ body.method = "initialize"

\* body && typeof body === 'object' && 'id' in body && body.id
HasTruthyId(body) == body.parsed /\ body.hasId /\ body.id # 0

\* ensureConnected without its guard
NeedsConnectAlways(t, connected) == TRUE

\* !connectedTransports.has(transport)
NeedsConnect(t, connected) == t \notin connected

-----------------------------------------------------------------------------
(* The handlers, cut at their await points.                                *)
(*   idle     -> the request has not arrived                               *)
(*   store    -> inside the middleware, awaiting store.getByRsAccess(bearer)*)
(*   json     -> inside the POST handler, awaiting c.req.json()            *)
(*   connect  -> inside ensureConnected, awaiting server.connect(transport)*)
(*   dispatch -> ensureConnected returned, handleRequest not yet called    *)
(*   handling -> awaiting transport.handleRequest(...)                     *)
(*   done     -> the handler returned its response                         *)
(* Between two awaits a request runs alone; at each await any other        *)
(* request may run.                                                        *)

\* the middleware answered itself: the route handler never runs
GateStops(r, g) ==
    /\ response' = [response EXCEPT ![r] = GateResponse(g)]
    /\ pc' = [pc EXCEPT ![r] = "done"]
    /\ UNCHANGED <<held, retrieved, transports, connectedTransports,
                   contextRegistry, tstate>>

\* a handler returns `resp` before it touched any transport
RouteStops(r, resp) ==
    /\ response' = [response EXCEPT ![r] = resp]
    /\ pc' = [pc EXCEPT ![r] = "done"]
    /\ UNCHANGED <<held, retrieved, transports, connectedTransports,
                   contextRegistry, tstate>>

\* ensureConnected returning without a connect
EnsureConnectedSkips(r, t, ts) ==
    /\ tstate' = ts
    /\ held' = [held EXCEPT ![r] = [transport |-> t, connectCalled |-> FALSE,
                                    dispatched |-> FALSE]]
    /\ pc' = [pc EXCEPT ![r] = "dispatch"]

\* ensureConnected(transport) up to its await: the has() test and the call
\* of server.connect
EnsureConnected(r, t, ts) ==
    LET connect == NeedsConnect(t, connectedTransports)
    IN  /\ tstate' = IF connect THEN [ts EXCEPT ![t].connects = @ + 1] ELSE ts
        /\ held' = [held EXCEPT ![r] = [transport |-> t, connectCalled |-> connect,
                                        dispatched |-> FALSE]]
        /\ pc' = [pc EXCEPT ![r] = IF connect THEN "connect" ELSE "dispatch"]

\* the POST handler registering a new transport when it constructs it
PostStartRegistersAtConstruction(r, req, g) ==
    LET sessionIdHeader == req.headers.sessionId
        body == req.body
        isInitialize == IsInitialize(body)
        plannedSid == IF isInitialize
                      THEN OrElse(sessionIdHeader, randomUUID(r))
                      ELSE Undefined
        existing == IF Truthy(sessionIdHeader)
                    THEN MapGet(transports, sessionIdHeader)
                    ELSE NoTransport
        t == IF existing = NoTransport THEN r ELSE existing
        ts == IF existing = NoTransport
              THEN [tstate EXCEPT ![r] = NewTransport(isInitialize, plannedSid)]
              ELSE tstate
    IN  /\ contextRegistry' =
              IF HasTruthyId(body)
              THEN ContextCreate(contextRegistry, body.id, plannedSid, g.authContext, r)
              ELSE contextRegistry
        /\ transports' = IF existing = NoTransport /\ isInitialize
                         THEN MapSet(transports, plannedSid, r)
                         ELSE transports
        /\ EnsureConnected(r, t, ts)
        /\ UNCHANGED <<response, retrieved, connectedTransports>>

\* app.post('/'), from the return of c.req.json() to the await in
\* ensureConnected
PostStart(r, req, g) ==
    LET sessionIdHeader == req.headers.sessionId
        body == req.body
        isInitialize == IsInitialize(body)
        plannedSid == IF isInitialize
                      THEN OrElse(sessionIdHeader, randomUUID(r))
                      ELSE Undefined
        existing == IF Truthy(sessionIdHeader)
                    THEN MapGet(transports, sessionIdHeader)
                    ELSE NoTransport
        t == IF existing = NoTransport THEN r ELSE existing
        ts == IF existing = NoTransport
              THEN [tstate EXCEPT ![r] = NewTransport(isInitialize, plannedSid)]
              ELSE tstate
    IN  /\ contextRegistry' =
              IF HasTruthyId(body)
              THEN ContextCreate(contextRegistry, body.id, plannedSid, g.authContext, r)
              ELSE contextRegistry
        /\ EnsureConnected(r, t, ts)
        /\ UNCHANGED <<response, retrieved, transports, connectedTransports>>

\* app.get('/'), from the top to the await in ensureConnected
GetStart(r, req) ==
    LET sessionIdHeader == req.headers.sessionId
        t == MapGet(transports, sessionIdHeader)
    IN  IF ~Truthy(sessionIdHeader) THEN RouteStops(r, MethodNotAllowed)
        ELSE IF t = NoTransport THEN RouteStops(r, InvalidSession)
        ELSE /\ EnsureConnected(r, t, tstate)
             /\ UNCHANGED <<response, retrieved, transports, connectedTransports,
                            contextRegistry>>

\* app.delete('/'), from the top to the await in ensureConnected
DeleteStart(r, req) ==
    LET sessionIdHeader == req.headers.sessionId
        t == MapGet(transports, sessionIdHeader)
    IN  IF ~Truthy(sessionIdHeader) THEN RouteStops(r, MethodNotAllowed)
        ELSE IF t = NoTransport THEN RouteStops(r, InvalidSession)
        ELSE /\ EnsureConnected(r, t, tstate)
             /\ UNCHANGED <<response, retrieved, transports, connectedTransports,
                            contextRegistry>>

\* the next request slot: slots are taken in order
CanArrive(r) == pc[r] = "idle" /\ (IF r = 1 THEN TRUE ELSE pc[r - 1] # "idle")

\* whether the middleware reaches `await store.getByRsAccess(bearer)`
AwaitsStore(cfg, headers) ==
    /\ validateOrigin(headers, cfg.NODE_ENV = "development")
    /\ validateProtocolVersion(headers, cfg.MCP_PROTOCOL_VERSION)
    /\ cfg.AUTH_ENABLED
    /\ Truthy(headers.authorization)
    /\ Truthy(BearerOf(headers.authorization))

\* app.post('/') from its top to `await c.req.json()`
PostAwaitsJson(r) ==
    /\ pc' = [pc EXCEPT ![r] = "json"]
    /\ UNCHANGED <<held, response, retrieved, transports, connectedTransports,
                   contextRegistry, tstate>>

\* the middleware returns with result g: its own response, or next() and
\* the route handler as far as the handler's first await
GateReturns(r, req, g) ==
    /\ gate' = [gate EXCEPT ![r] = g]
    /\ IF g.outcome # "next" THEN GateStops(r, g)
       ELSE IF req.method = "POST" THEN PostAwaitsJson(r)
       ELSE IF req.method = "GET" THEN GetStart(r, req)
       ELSE DeleteStart(r, req)

\* request req enters the middleware, which runs to its await on the token
\* store or, when it makes no lookup, to its return
Arrive(r, req) ==
    /\ request' = [request EXCEPT ![r] = req]
    /\ IF AwaitsStore(config, req.headers)
       THEN /\ pc' = [pc EXCEPT ![r] = "store"]
            /\ UNCHANGED <<gate, held, response, retrieved, transports,
                           connectedTransports, contextRegistry, tstate>>
       ELSE GateReturns(r, req, Gate(config, req.headers, FALSE, randomUUID(r)))

\* a POST arrives: app.use(middleware) then app.post('/')
ArrivePost(r, reqs) ==
    /\ CanArrive(r)
    /\ \E req \in reqs : req.method = "POST" /\ Arrive(r, req)
    /\ UNCHANGED <<config, gateVars, oauthVars>>

\* a GET arrives: app.use(middleware) then app.get('/')
ArriveGet(r, reqs) ==
    /\ CanArrive(r)
    /\ \E req \in reqs : req.method = "GET" /\ Arrive(r, req)
    /\ UNCHANGED <<config, gateVars, oauthVars>>

\* a DELETE arrives: app.use(middleware) then app.delete('/')
ArriveDelete(r, reqs) ==
    /\ CanArrive(r)
    /\ \E req \in reqs : req.method = "DELETE" /\ Arrive(r, req)
    /\ UNCHANGED <<config, gateVars, oauthVars>>

\* await store.getByRsAccess(bearer) resolves: the middleware runs on to its
\* return
StoreResolves(r) ==
    /\ pc[r] = "store"
    /\ GateReturns(r, request[r],
                   Gate(config, request[r].headers, FALSE, randomUUID(r)))
    /\ UNCHANGED <<config, request, gateVars, oauthVars>>

\* await store.getByRsAccess(bearer) rejects: the inner catch, then next()
StoreRejects(r) ==
    /\ pc[r] = "store"
    /\ GateReturns(r, request[r],
                   Gate(config, request[r].headers, TRUE, randomUUID(r)))
    /\ UNCHANGED <<config, request, gateVars, oauthVars>>

\* await c.req.json() settles (request[r].body.parsed tells which way): the
\* POST handler runs on to the await in ensureConnected
JsonSettles(r) ==
    /\ pc[r] = "json"
    /\ PostStart(r, request[r], gate[r])
    /\ UNCHANGED <<config, request, gate, gateVars, oauthVars>>

\* ensureConnected without connectedTransports.add(transport)
ConnectResolvesForgets(r) ==
    /\ pc[r] = "connect"
    /\ pc' = [pc EXCEPT ![r] = "dispatch"]
    /\ UNCHANGED <<config, request, gate, held, response, retrieved, transports,
                   connectedTransports, contextRegistry, tstate, gateVars, oauthVars>>

\* await server.connect(transport) resolves; connectedTransports.add(transport)
ConnectResolves(r) ==
    /\ pc[r] = "connect"
    /\ connectedTransports' = connectedTransports \cup {held[r].transport}
    /\ pc' = [pc EXCEPT ![r] = "dispatch"]
    /\ UNCHANGED <<config, request, gate, held, response, retrieved, transports,
                   contextRegistry, tstate, gateVars, oauthVars>>

\* ensureConnected recording the transport before the connect has succeeded
ConnectRejectsRecords(r) ==
    /\ pc[r] = "connect"
    /\ connectedTransports' = connectedTransports \cup {held[r].transport}
    /\ response' = [response EXCEPT ![r] = InternalServerError]
    /\ pc' = [pc EXCEPT ![r] = "done"]
    /\ UNCHANGED <<config, request, gate, held, retrieved, transports,
                   contextRegistry, tstate, gateVars, oauthVars>>

\* await server.connect(transport) rejects: the handler's catch answers 500
ConnectRejects(r) ==
    /\ pc[r] = "connect"
    /\ response' = [response EXCEPT ![r] = InternalServerError]
    /\ pc' = [pc EXCEPT ![r] = "done"]
    /\ UNCHANGED <<config, request, gate, held, retrieved, transports,
                   connectedTransports, contextRegistry, tstate, gateVars, oauthVars>>

\* whether the SDK transport serves the request rather than answering it
\* with an error of its own: an initialize needs a transport that is not
\* initialized yet, anything else a stateless transport or the session id
\* of the transport in the Mcp-Session-Id header
TransportAccepts(req, ts) ==
    LET sessionOk == \/ ts.sessionIdGenerator = Undefined
                     \/ ts.initialized /\ req.headers.sessionId = ts.sessionId
    IN  IF req.method = "POST"
        THEN /\ req.body.parsed
             /\ IF IsInitialize(req.body) THEN ~ts.initialized ELSE sessionOk
        ELSE sessionOk

\* transport.handleRequest(req, res, body) is called: the transport handles
\* an initialize by generating its session id and calling onsessioninitialized
\* (transports.set(sid, created)); a request with an id is given to its
\* protocol handler, which reads contextRegistry by the request id
HandleRequest(r) ==
    /\ pc[r] = "dispatch"
    /\ LET t == held[r].transport
           req == request[r]
           ts == tstate[t]
           accepts == TransportAccepts(req, ts)
           init == accepts /\ req.method = "POST" /\ IsInitialize(req.body)
           sid == ts.sessionIdGenerator
           call == accepts /\ req.method = "POST" /\ ~IsInitialize(req.body)
                   /\ req.body.hasId
       IN  /\ tstate' = [tstate EXCEPT ![t] =
                  [@ EXCEPT !.dispatches = @ + 1,
                            !.dispatchedClosed = @ \/ ts.closes > 0,
                            !.initialized = @ \/ init,
                            !.sessionId = IF init THEN sid ELSE @]]
           /\ transports' = IF init /\ Truthy(sid) /\ ts.onsessioninitialized
                            THEN MapSet(transports, sid, t)
                            ELSE transports
           /\ retrieved' = IF call
                           THEN [retrieved EXCEPT ![r] =
                                    [looked |-> TRUE,
                                     context |-> ContextGet(contextRegistry, req.body.id)]]
                           ELSE retrieved
           /\ held' = [held EXCEPT ![r].dispatched = TRUE]
           /\ response' = [response EXCEPT ![r] =
                  TransportResponse(IF accepts THEN "served" ELSE "refused",
                                    IF init THEN sid ELSE Undefined)]
    /\ pc' = [pc EXCEPT ![r] = "handling"]
    /\ UNCHANGED <<config, request, gate, connectedTransports, contextRegistry,
                   gateVars, oauthVars>>

\* the DELETE handler emptying the registry: transports.clear()
HandleResolvesClearsAll(r) ==
    /\ pc[r] = "handling"
    /\ LET t == held[r].transport
           isDelete == request[r].method = "DELETE"
       IN  /\ transports' = IF isDelete THEN <<>> ELSE transports
           /\ tstate' = IF isDelete
                        THEN [tstate EXCEPT ![t].closes = @ + 1]
                        ELSE tstate
    /\ pc' = [pc EXCEPT ![r] = "done"]
    /\ UNCHANGED <<config, request, gate, held, response, retrieved,
                   connectedTransports, contextRegistry, gateVars, oauthVars>>

\* the DELETE handler without transports.delete(sessionIdHeader)
HandleResolvesKeepsSession(r) ==
    /\ pc[r] = "handling"
    /\ LET t == held[r].transport
           isDelete == request[r].method = "DELETE"
       IN  tstate' = IF isDelete
                     THEN [tstate EXCEPT ![t].closes = @ + 1]
                     ELSE tstate
    /\ pc' = [pc EXCEPT ![r] = "done"]
    /\ UNCHANGED <<config, request, gate, held, response, retrieved, transports,
                   connectedTransports, contextRegistry, gateVars, oauthVars>>

\* await transport.handleRequest(...) resolves: DELETE removes the session
\* and closes the transport; the handler returns toFetchResponse(res)
HandleResolves(r) ==
    /\ pc[r] = "handling"
    /\ LET t == held[r].transport
           isDelete == request[r].method = "DELETE"
       IN  /\ transports' = IF isDelete
                            THEN MapDelete(transports, request[r].headers.sessionId)
                            ELSE transports
           /\ tstate' = IF isDelete
                        THEN [tstate EXCEPT ![t].closes = @ + 1]
                        ELSE tstate
    /\ pc' = [pc EXCEPT ![r] = "done"]
    /\ UNCHANGED <<config, request, gate, held, response, retrieved,
                   connectedTransports, contextRegistry, gateVars, oauthVars>>

\* a catch that also removes the session and closes the transport of a DELETE
HandleRejectsCleansUp(r) ==
    /\ pc[r] = "handling"
    /\ LET t == held[r].transport
           isDelete == request[r].method = "DELETE"
       IN  /\ transports' = IF isDelete
                            THEN MapDelete(transports, request[r].headers.sessionId)
                            ELSE transports
           /\ tstate' = IF isDelete
                        THEN [tstate EXCEPT ![t].closes = @ + 1]
                        ELSE tstate
    /\ response' = [response EXCEPT ![r] = InternalServerError]
    /\ pc' = [pc EXCEPT ![r] = "done"]
    /\ UNCHANGED <<config, request, gate, held, retrieved,
                   connectedTransports, contextRegistry, gateVars, oauthVars>>

\* await transport.handleRequest(...) rejects: the handler's catch answers 500
HandleRejects(r) ==
    /\ pc[r] = "handling"
    /\ response' = [response EXCEPT ![r] = InternalServerError]
    /\ pc' = [pc EXCEPT ![r] = "done"]
    /\ UNCHANGED <<config, request, gate, held, retrieved, transports,
                   connectedTransports, contextRegistry, tstate, gateVars, oauthVars>>

-----------------------------------------------------------------------------
(* Configurations and inputs *)

SupportedVersion == <<"2025-06-18">>

GateConfigs ==
    [NODE_ENV : {"development", "production"},
     MCP_PROTOCOL_VERSION : {SupportedVersion},
     AUTH_ENABLED : BOOLEAN,
     AUTH_STRATEGY : {"oauth"},
     AUTH_REQUIRE_RS : BOOLEAN,
     AUTH_ALLOW_DIRECT_BEARER : BOOLEAN,
     AUTH_RESOURCE_URI : {NoUrl, ResourceUri}]

\* the atoms Authorization header values are built from
HeaderAtoms == {" ", "\t", "Bearer", "BEARER", "Basic", "rsA"}

\* header values as a handler sees them: the HTTP layer has stripped
\* leading and trailing whitespace
HeaderValues ==
    {EmptyStr} \cup
    {s \in UNION {[1..n -> HeaderAtoms] : n \in 1..MaxHdrLen} :
        s[1] \notin Whitespace /\ s[Len(s)] \notin Whitespace}

GateHeaders ==
    [origin : {<<"https://app.example">>, <<"https://evil.example">>},
     protocolVersion : {SupportedVersion, <<"1999-01-01">>},
     authorization : {Undefined} \cup HeaderValues,
     sessionId : {Undefined, EmptyStr, <<"s1">>}]

NoGateRequest == [headers |-> NoHeaders, storeThrows |-> FALSE, pending |-> FALSE]

\* the servers the routes are run under: authentication off, and
\* authentication on with resource-server tokens required
RouteConfigs ==
    {c \in GateConfigs :
        /\ c.NODE_ENV = "production"
        /\ c.AUTH_RESOURCE_URI = NoUrl
        /\ c.AUTH_REQUIRE_RS = c.AUTH_ENABLED
        /\ ~c.AUTH_ALLOW_DIRECT_BEARER}

BearerA == <<"Bearer", " ", "rsA">>
BearerB == <<"Bearer", " ", "rsB">>

\* session ids a client may send: none, one of its own choosing, or one
\* the server has bound
SessionIdHeaders == {Undefined, <<"s1">>} \cup DOMAIN transports

RouteHeaders(auths) ==
    [origin : {<<"https://app.example">>},
     protocolVersion : {SupportedVersion},
     authorization : auths,
     sessionId : SessionIdHeaders]

\* POST bodies: unparsable, a notification (no id), or a request with an id
PostBodies(ids) ==
    {NoBody} \cup
    [parsed : {TRUE}, method : {"initialize", "tools/call"}, hasId : {FALSE}, id : {0}] \cup
    [parsed : {TRUE}, method : {"initialize", "tools/call"}, hasId : {TRUE}, id : ids]

\* the requests of the session lifecycle runs
LifecycleRequests ==
    [method : {"POST"}, headers : RouteHeaders({Undefined, BearerA}),
     body : {b \in PostBodies({1}) : b.parsed /\ b.hasId}] \cup
    [method : {"GET", "DELETE"}, headers : RouteHeaders({Undefined, BearerA}),
     body : {NoBody}]

\* the session id the client of the session runs chooses
SessionIds == {<<"s1">>}

\* the session ids the clients of the two-session runs choose
PairIds == {<<"s1">>, <<"s2">>}

\* the requests of the context propagation runs
ContextRequests ==
    [method : {"POST"}, headers : RouteHeaders({BearerA, BearerB}),
     body : PostBodies(0..MaxRpcId)]

-----------------------------------------------------------------------------
(* OAuth input parsing: URLSearchParams, buildTokenInput *)

\* the JavaScript value null that URLSearchParams.get returns for a missing name
Null == <<"null">>

\* JavaScript truthiness of a value of type string | null | undefined
NotEmpty(s) == s \notin {Null, Undefined, EmptyStr}

RECURSIVE ParamsGet(_, _)
\* URLSearchParams.prototype.get(name): the value of the first pair with
\* that name, null when there is none; params is the sequence of its
\* <<name, value>> pairs in order
ParamsGet(params, name) ==
    IF params = <<>> THEN Null
    ELSE IF Head(params)[1] = name THEN Head(params)[2]
    ELSE ParamsGet(Tail(params), name)

\* { error }
TokenError(error) ==
    [error |-> error, grant |-> Undefined, refreshToken |-> Undefined,
     code |-> Undefined, codeVerifier |-> Undefined]

\* { grant: 'refresh_token', refreshToken }
RefreshTokenInput(refreshToken) ==
    [error |-> Undefined, grant |-> <<"refresh_token">>,
     refreshToken |-> refreshToken, code |-> Undefined, codeVerifier |-> Undefined]

\* { grant: 'authorization_code', code, codeVerifier }
AuthorizationCodeInput(code, codeVerifier) ==
    [error |-> Undefined, grant |-> <<"authorization_code">>,
     refreshToken |-> Undefined, code |-> code, codeVerifier |-> codeVerifier]

\* buildTokenInput testing the code only
buildTokenInputWithoutVerifier(form) ==
    LET grant == ParamsGet(form, "grant_type")
    IN  IF grant = <<"refresh_token">>
        THEN LET refreshToken == ParamsGet(form, "refresh_token")
             IN  IF ~NotEmpty(refreshToken)
                 THEN TokenError(<<"missing_refresh_token">>)
                 ELSE RefreshTokenInput(refreshToken)
        ELSE IF grant = <<"authorization_code">>
        THEN LET code == ParamsGet(form, "code")
                 codeVerifier == ParamsGet(form, "code_verifier")
             IN  IF ~NotEmpty(code)
                 THEN TokenError(<<"missing_code_or_verifier">>)
                 ELSE AuthorizationCodeInput(code, codeVerifier)
        ELSE TokenError(<<"unsupported_grant_type">>)

\* buildTokenInput(form)
buildTokenInput(form) ==
    LET grant == ParamsGet(form, "grant_type")
    IN  IF grant = <<"refresh_token">>
        THEN LET refreshToken == ParamsGet(form, "refresh_token")
             IN  IF ~NotEmpty(refreshToken)
                 THEN TokenError(<<"missing_refresh_token">>)
                 ELSE RefreshTokenInput(refreshToken)
        ELSE IF grant = <<"authorization_code">>
        THEN LET code == ParamsGet(form, "code")
                 codeVerifier == ParamsGet(form, "code_verifier")
             IN  IF ~NotEmpty(code) \/ ~NotEmpty(codeVerifier)
                 THEN TokenError(<<"missing_code_or_verifier">>)
                 ELSE AuthorizationCodeInput(code, codeVerifier)
        ELSE TokenError(<<"unsupported_grant_type">>)

\* buildTokenInput has not been called
NoTokenInput == TokenError(<<"not called">>)

\* the <<name, value>> pairs token forms are built from
TokenPairs ==
    ({"grant_type"} \X {EmptyStr, <<"refresh_token">>, <<"authorization_code">>,
                        <<"password">>})
    \cup ({"refresh_token"} \X {EmptyStr, <<"refreshA">>})
    \cup ({"code"} \X {EmptyStr, <<"codeA">>})
    \cup ({"code_verifier"} \X {EmptyStr, <<"verifierA">>})

\* the forms buildTokenInput is tried on: every sequence of pairs, with
\* repeated and missing names
TokenForms == UNION {[1..n -> TokenPairs] : n \in 0..MaxFormLen}

TokenIdle == tokenForm = <<>> /\ tokenInput = NoTokenInput

\* the token endpoint calls buildTokenInput(form)
BuildTokenInput ==
    /\ tokenInput = NoTokenInput
    /\ tokenInput' = buildTokenInput(tokenForm)
    /\ UNCHANGED <<tokenForm, authorizeUrl, authorizeInput, discoveryRequest,
                   discoveryMetadata, gateVars, routeVars>>

-----------------------------------------------------------------------------
(* OAuth input parsing: parseAuthorizeInput *)

\* a || b on values of type string | null | undefined
OrDefault(a, b) == IF NotEmpty(a) THEN a ELSE b

\* a ?? b on values of type string | null | undefined
NullishOr(a, b) == IF a \in {Null, Undefined} THEN b ELSE a

\* parseAuthorizeInput(url, sessionId): searchParams is url.searchParams;
\* the function has no throw and no error return, outcome is always "input"
parseAuthorizeInput(searchParams, sessionId) ==
    [outcome |-> "input",
     codeChallenge |-> OrDefault(ParamsGet(searchParams, "code_challenge"), EmptyStr),
     codeChallengeMethod |->
         OrDefault(ParamsGet(searchParams, "code_challenge_method"), EmptyStr),
     redirectUri |-> OrDefault(ParamsGet(searchParams, "redirect_uri"), EmptyStr),
     requestedScope |-> NullishOr(ParamsGet(searchParams, "scope"), Undefined),
     state |-> NullishOr(ParamsGet(searchParams, "state"), Undefined),
     sid |-> OrDefault(ParamsGet(searchParams, "sid"),
                       OrDefault(sessionId, Undefined))]

\* parseAuthorizeInput has not been called
NoAuthorizeInput ==
    [outcome |-> "not called", codeChallenge |-> Undefined,
     codeChallengeMethod |-> Undefined, redirectUri |-> Undefined,
     requestedScope |-> Undefined, state |-> Undefined, sid |-> Undefined]

\* the <<name, value>> pairs authorize query strings are built from
AuthorizePairs ==
    ({"code_challenge"} \X {EmptyStr, <<"challengeA">>})
    \cup ({"code_challenge_method"} \X {EmptyStr, <<"S256">>, <<"plain">>})
    \cup ({"redirect_uri"} \X {EmptyStr, <<"https://app.example/cb">>})
    \cup ({"scope"} \X {<<"calendar">>})
    \cup ({"state"} \X {<<"stateA">>})
    \cup ({"sid"} \X {EmptyStr, <<"s1">>})

\* the authorize requests parseAuthorizeInput is tried on
AuthorizeUrls ==
    [searchParams : UNION {[1..n -> AuthorizePairs] : n \in 0..MaxQueryLen},
     sessionId : {Undefined, <<"s2">>}]

NoAuthorizeUrl == [searchParams |-> <<>>, sessionId |-> Undefined]

AuthorizeIdle == authorizeUrl = NoAuthorizeUrl /\ authorizeInput = NoAuthorizeInput

\* the authorize endpoint calls parseAuthorizeInput(url, sessionId)
ParseAuthorizeInput ==
    /\ authorizeInput = NoAuthorizeInput
    /\ authorizeInput' =
          parseAuthorizeInput(authorizeUrl.searchParams, authorizeUrl.sessionId)
    /\ UNCHANGED <<authorizeUrl, tokenForm, tokenInput, discoveryRequest,
                   discoveryMetadata, gateVars, routeVars>>

-----------------------------------------------------------------------------
(* OAuth discovery: the auth app and createDiscoveryHandlers *)

ResourceUriHttp == [protocol |-> "http:", hostname |-> "localhost", port |-> 8080]

\* Number(u.port || (u.protocol === 'https:' ? 443 : 80)) + 1
AuthPort(u) ==
    (IF u.port # 0 THEN u.port ELSE IF u.protocol = "https:" THEN 443 ELSE 80) + 1

\* `${u.protocol}//${u.hostname}:${port}`
BaseWithPort(u, port) == [protocol |-> u.protocol, hostname |-> u.hostname, port |-> port]

\* `${u.protocol}//${u.host}`: host is the hostname with the port when the
\* URL has one
BaseOfHost(u) == [protocol |-> u.protocol, hostname |-> u.hostname, port |-> u.port]

\* `${base}${path}`
Endpoint(base, path) == [base |-> base, path |-> path]

RECURSIVE NonEmptyPieces(_)
\* .filter(Boolean) on the pieces of a split
NonEmptyPieces(pieces) ==
    IF pieces = <<>> THEN <<>>
    ELSE IF Head(pieces) = EmptyStr THEN NonEmptyPieces(Tail(pieces))
    ELSE <<Head(pieces)>> \o NonEmptyPieces(Tail(pieces))

\* config.OAUTH_SCOPES.split(' ').filter(Boolean)
ScopesBySpace(scopes) == NonEmptyPieces(SplitAll(scopes, " "))

\* config.OAUTH_SCOPES.split(/\s+/).map((scope) => scope.trim()).filter(Boolean)
ScopesByWhitespace(scopes) ==
    NonEmptyPieces(SplitAll([i \in 1..Len(scopes) |->
                                IF scopes[i] \in Whitespace THEN " " ELSE scopes[i]],
                            " "))

\* buildAuthorizationServerMetadata(baseUrl, scopes, overrides)
buildAuthorizationServerMetadata(baseUrl, scopes, overrides) ==
    [issuer |-> baseUrl,
     authorization_endpoint |-> overrides.authorizationEndpoint,
     token_endpoint |-> overrides.tokenEndpoint,
     revocation_endpoint |-> overrides.revocationEndpoint,
     scopes_supported |-> scopes]

\* workerDiscoveryStrategy.resolveAuthBaseUrl / nodeDiscoveryStrategy.resolveAuthBaseUrl
resolveAuthBaseUrl(strategy, requestUrl, cfg) ==
    IF strategy = "worker"
    THEN UrlOrigin(requestUrl)
    ELSE IF cfg.AUTH_RESOURCE_URI # NoUrl
         THEN BaseWithPort(cfg.AUTH_RESOURCE_URI, AuthPort(cfg.AUTH_RESOURCE_URI))
         ELSE BaseWithPort(requestUrl, cfg.PORT + 1)

\* authorizationMetadata advertising the configured provider endpoints
authorizationMetadataUpstream(cfg, strategy, requestUrl) ==
    LET baseUrl == resolveAuthBaseUrl(strategy, requestUrl, cfg)
    IN  buildAuthorizationServerMetadata(baseUrl, ScopesByWhitespace(cfg.OAUTH_SCOPES),
            [authorizationEndpoint |-> cfg.OAUTH_AUTHORIZATION_URL,
             tokenEndpoint |-> cfg.OAUTH_TOKEN_URL,
             revocationEndpoint |-> Endpoint(baseUrl, "/revoke")])

\* createDiscoveryHandlers(config, strategy).authorizationMetadata(requestUrl)
authorizationMetadata(cfg, strategy, requestUrl) ==
    LET baseUrl == resolveAuthBaseUrl(strategy, requestUrl, cfg)
    IN  buildAuthorizationServerMetadata(baseUrl, ScopesByWhitespace(cfg.OAUTH_SCOPES),
            [authorizationEndpoint |-> Endpoint(baseUrl, "/authorize"),
             tokenEndpoint |-> Endpoint(baseUrl, "/token"),
             revocationEndpoint |-> Endpoint(baseUrl, "/revoke")])

\* buildAuthApp: app.get('/.well-known/oauth-authorization-server')
AuthAppMetadata(cfg, requestUrl) ==
    LET here == IF cfg.AUTH_RESOURCE_URI # NoUrl THEN cfg.AUTH_RESOURCE_URI ELSE requestUrl
        authPort == AuthPort(here)
        base == IF cfg.AUTH_RESOURCE_URI # NoUrl
                THEN BaseWithPort(here, authPort)
                ELSE BaseOfHost(here)
    IN  buildAuthorizationServerMetadata(base, ScopesBySpace(cfg.OAUTH_SCOPES),
            [authorizationEndpoint |-> Endpoint(base, "/authorize"),
             tokenEndpoint |-> Endpoint(base, "/token"),
             revocationEndpoint |-> Endpoint(base, "/revoke")])

\* the provider endpoints a deployment may configure
ProviderHosts ==
    {[protocol |-> "https:", hostname |-> "accounts.google.com", port |-> 0],
     [protocol |-> "https:", hostname |-> "oauth2.googleapis.com", port |-> 0]}

DiscoveryConfigs ==
    [AUTH_RESOURCE_URI : {NoUrl, ResourceUri, ResourceUriHttp},
     PORT : {3000},
     OAUTH_AUTHORIZATION_URL : {Endpoint(h, "/o/oauth2/v2/auth") : h \in ProviderHosts},
     OAUTH_TOKEN_URL : {Endpoint(h, "/token") : h \in ProviderHosts},
     OAUTH_SCOPES : {<<"calendar", " ", "email">>, <<"calendar", "\t", " ", "email">>}]

\* request URLs as new URL() gives them: a default port is the empty port
DiscoveryUrls ==
    [protocol : {"http:", "https:"},
     hostname : {"127.0.0.1", "mcp.example.com"},
     port : {0, 3000, 3001}]

\* the three servers of the metadata document
DiscoveryHandlers == {"authApp", "node", "worker"}

DiscoveryRequests ==
    [handler : DiscoveryHandlers, cfg : DiscoveryConfigs, requestUrl : DiscoveryUrls]

NoDiscoveryRequest ==
    [handler |-> "none",
     cfg |-> [AUTH_RESOURCE_URI |-> NoUrl, PORT |-> 0,
              OAUTH_AUTHORIZATION_URL |-> Endpoint(NoUrl, ""),
              OAUTH_TOKEN_URL |-> Endpoint(NoUrl, ""),
              OAUTH_SCOPES |-> EmptyStr],
     requestUrl |-> NoUrl]

NoMetadata ==
    [issuer |-> NoUrl,
     authorization_endpoint |-> Endpoint(NoUrl, ""),
     token_endpoint |-> Endpoint(NoUrl, ""),
     revocation_endpoint |-> Endpoint(NoUrl, ""),
     scopes_supported |-> <<>>]

DiscoveryIdle == discoveryRequest = NoDiscoveryRequest /\ discoveryMetadata = NoMetadata

\* GET /.well-known/oauth-authorization-server is served
ServeMetadata ==
    /\ discoveryMetadata = NoMetadata
    /\ discoveryMetadata' =
          IF discoveryRequest.handler = "authApp"
          THEN AuthAppMetadata(discoveryRequest.cfg, discoveryRequest.requestUrl)
          ELSE authorizationMetadata(discoveryRequest.cfg, discoveryRequest.handler,
                                     discoveryRequest.requestUrl)
    /\ UNCHANGED <<discoveryRequest, tokenForm, tokenInput, authorizeUrl,
                   authorizeInput, gateVars, routeVars>>

\* no OAuth endpoint has been called
OAuthIdle == TokenIdle /\ AuthorizeIdle /\ DiscoveryIdle

-----------------------------------------------------------------------------
(* Specifications *)

RoutesIdle ==
    /\ request = [r \in Requests |-> NoRequest]
    /\ pc = [r \in Requests |-> "idle"]
    /\ gate = [r \in Requests |-> NoGate]
    /\ held = [r \in Requests |-> NoHeld]
    /\ response = [r \in Requests |-> NoResponse]
    /\ retrieved = [r \in Requests |-> NoLookup]
    /\ transports = <<>>
    /\ connectedTransports = {}
    /\ contextRegistry = <<>>
    /\ tstate = [t \in Requests |-> NoTransportState]

\* the server after buildMcpRoutes: no session, no request in flight
Init ==
    /\ config \in RouteConfigs
    /\ gateConfig = config
    /\ gateRequest = NoGateRequest
    /\ gateResult = NoGate
    /\ RoutesIdle
    /\ OAuthIdle

Next ==
    \E r \in Requests :
        \/ ArrivePost(r, LifecycleRequests)
        \/ ArriveGet(r, LifecycleRequests)
        \/ ArriveDelete(r, LifecycleRequests)
        \/ StoreResolves(r)
        \/ StoreRejects(r)
        \/ JsonSettles(r)
        \/ ConnectResolves(r)
        \/ ConnectRejects(r)
        \/ HandleRequest(r)
        \/ HandleResolves(r)
        \/ HandleRejects(r)

Spec == Init /\ [][Next]_vars

\* POST requests only, with every shape of body and two bearer tokens
NextContext ==
    \E r \in Requests :
        \/ ArrivePost(r, ContextRequests)
        \/ StoreResolves(r)
        \/ StoreRejects(r)
        \/ JsonSettles(r)
        \/ ConnectResolves(r)
        \/ ConnectRejects(r)
        \/ HandleRequest(r)
        \/ HandleResolves(r)
        \/ HandleRejects(r)

SpecContext == Init /\ [][NextContext]_vars

\* the middleware alone, on every configuration and header
InitGate ==
    /\ gateConfig \in GateConfigs
    /\ gateRequest = NoGateRequest
    /\ gateResult = NoGate
    /\ config = gateConfig
    /\ RoutesIdle
    /\ OAuthIdle

\* one request enters the middleware, which runs to its await on the token
\* store (gateRequest.pending) or, when it makes no lookup, to its return
GateRequest ==
    /\ gateRequest = NoGateRequest
    /\ \E headers \in GateHeaders :
          IF AwaitsStore(gateConfig, headers)
          THEN /\ gateRequest' = [headers |-> headers, storeThrows |-> FALSE,
                                  pending |-> TRUE]
               /\ UNCHANGED gateResult
          ELSE /\ gateRequest' = [headers |-> headers, storeThrows |-> FALSE,
                                  pending |-> FALSE]
               /\ gateResult' = Gate(gateConfig, headers, FALSE, randomUUID(0))
    /\ UNCHANGED <<gateConfig, routeVars, oauthVars>>

\* await store.getByRsAccess(bearer) resolves: the middleware runs on to its
\* return
GateStoreResolves ==
    /\ gateRequest.pending
    /\ gateRequest' = [gateRequest EXCEPT !.pending = FALSE]
    /\ gateResult' = Gate(gateConfig, gateRequest.headers, FALSE, randomUUID(0))
    /\ UNCHANGED <<gateConfig, routeVars, oauthVars>>

\* await store.getByRsAccess(bearer) rejects: the inner catch, then next()
GateStoreRejects ==
    /\ gateRequest.pending
    /\ gateRequest' = [gateRequest EXCEPT !.pending = FALSE, !.storeThrows = TRUE]
    /\ gateResult' = Gate(gateConfig, gateRequest.headers, TRUE, randomUUID(0))
    /\ UNCHANGED <<gateConfig, routeVars, oauthVars>>

NextGate == GateRequest \/ GateStoreResolves \/ GateStoreRejects

SpecGate == InitGate /\ [][NextGate]_vars

\* buildTokenInput on every form
InitToken ==
    /\ tokenForm \in TokenForms
    /\ tokenInput = NoTokenInput
    /\ AuthorizeIdle /\ DiscoveryIdle
    /\ config \in {c \in RouteConfigs : ~c.AUTH_ENABLED}
    /\ gateConfig = config
    /\ gateRequest = NoGateRequest
    /\ gateResult = NoGate
    /\ RoutesIdle

NextToken == BuildTokenInput

SpecToken == InitToken /\ [][NextToken]_vars

\* parseAuthorizeInput on every authorize request
InitAuthorize ==
    /\ authorizeUrl \in AuthorizeUrls
    /\ authorizeInput = NoAuthorizeInput
    /\ TokenIdle /\ DiscoveryIdle
    /\ config \in {c \in RouteConfigs : ~c.AUTH_ENABLED}
    /\ gateConfig = config
    /\ gateRequest = NoGateRequest
    /\ gateResult = NoGate
    /\ RoutesIdle

NextAuthorize == ParseAuthorizeInput

SpecAuthorize == InitAuthorize /\ [][NextAuthorize]_vars

\* the metadata document of every server, configuration and request URL
InitDiscovery ==
    /\ discoveryRequest \in DiscoveryRequests
    /\ discoveryMetadata = NoMetadata
    /\ TokenIdle /\ AuthorizeIdle
    /\ config \in {c \in RouteConfigs : ~c.AUTH_ENABLED}
    /\ gateConfig = config
    /\ gateRequest = NoGateRequest
    /\ gateResult = NoGate
    /\ RoutesIdle

NextDiscovery == ServeMetadata

SpecDiscovery == InitDiscovery /\ [][NextDiscovery]_vars

\* the request slots of the session runs
SessionSlots == 1..MaxSessReq

\* the requests of clients that name their sessions themselves, with ids
\* of `ids`, and send initialize, GET and DELETE for them
RequestsFor(ids) ==
    [method : {"POST"},
     headers : [origin : {<<"https://app.example">>},
                protocolVersion : {SupportedVersion},
                authorization : {Undefined},
                sessionId : ids],
     body : {[parsed |-> TRUE, method |-> "initialize", hasId |-> TRUE, id |-> 1]}] \cup
    [method : {"GET", "DELETE"},
     headers : [origin : {<<"https://app.example">>},
                protocolVersion : {SupportedVersion},
                authorization : {Undefined},
                sessionId : ids],
     body : {NoBody}]

\* the requests of the session runs
SessionRequests == RequestsFor(SessionIds)

\* the requests of the two-session runs
PairRequests == RequestsFor(PairIds)

\* a server with authentication off, no session and no request in flight,
\* about to receive the requests of `slots`
InitSlots(slots) ==
    /\ config \in {c \in RouteConfigs : ~c.AUTH_ENABLED}
    /\ gateConfig = config
    /\ gateRequest = NoGateRequest
    /\ gateResult = NoGate
    /\ request = [r \in slots |-> NoRequest]
    /\ pc = [r \in slots |-> "idle"]
    /\ gate = [r \in slots |-> NoGate]
    /\ held = [r \in slots |-> NoHeld]
    /\ response = [r \in slots |-> NoResponse]
    /\ retrieved = [r \in slots |-> NoLookup]
    /\ transports = <<>>
    /\ connectedTransports = {}
    /\ contextRegistry = <<>>
    /\ tstate = [t \in slots |-> NoTransportState]
    /\ OAuthIdle

InitSession == InitSlots(SessionSlots)

NextSession ==
    \E r \in SessionSlots :
        \/ ArrivePost(r, SessionRequests)
        \/ ArriveGet(r, SessionRequests)
        \/ ArriveDelete(r, SessionRequests)
        \/ JsonSettles(r)
        \/ ConnectResolves(r)
        \/ ConnectRejects(r)
        \/ HandleRequest(r)
        \/ HandleResolves(r)
        \/ HandleRejects(r)

SpecSession == InitSession /\ [][NextSession]_vars

\* the request slots of the two-session runs
PairSlots == 1..MaxPairReq

InitPair == InitSlots(PairSlots)

NextPair ==
    \E r \in PairSlots :
        \/ ArrivePost(r, PairRequests)
        \/ ArriveGet(r, PairRequests)
        \/ ArriveDelete(r, PairRequests)
        \/ JsonSettles(r)
        \/ ConnectResolves(r)
        \/ ConnectRejects(r)
        \/ HandleRequest(r)
        \/ HandleResolves(r)
        \/ HandleRejects(r)

SpecPair == InitPair /\ [][NextPair]_vars

-----------------------------------------------------------------------------
(* Properties of the Security Gate, stated for SpecGate *)

\* the middleware has handled gateRequest
GateRan == gateResult.outcome # "none"

\* both validators returned on gateRequest
GateValid ==
    /\ validateOrigin(gateRequest.headers, gateConfig.NODE_ENV = "development")
    /\ validateProtocolVersion(gateRequest.headers, gateConfig.MCP_PROTOCOL_VERSION)

\* the Bearer token gateRequest presents, empty when it presents none
GateBearerToken ==
    IF Truthy(gateRequest.headers.authorization)
    THEN BearerOf(gateRequest.headers.authorization)
    ELSE EmptyStr

\* the session id a challenge to gateRequest carries when it echoes a
\* supplied id and mints one otherwise
EchoedOrFresh ==
    IF Truthy(gateRequest.headers.sessionId)
    THEN gateRequest.headers.sessionId
    ELSE randomUUID(0)

\* C4: with AUTH_ENABLED, a request that passes origin and protocol-version
\* validation and carries no bearer credential (no Authorization header, a
\* non-Bearer scheme, an empty Bearer token) is answered with a 401 Challenge,
\* is not passed to next(), and the response's Mcp-Session-Id is the
\* request's when supplied and a fresh id otherwise.
C4_ChallengeWithoutBearer ==
    (GateRan /\ gateConfig.AUTH_ENABLED /\ GateValid /\ GateBearerToken = EmptyStr)
        => /\ gateResult.outcome = "json"
           /\ gateResult.status = 401
           /\ gateResult.sessionId = EchoedOrFresh

\* C5: for a request whose Bearer token is a key of the Credential Store the
\* gate calls next() with an AuthContext whose resolved authorization header
\* is "Bearer " followed by the stored provider access_token, whose inbound
\* authorization header is the request's, and whose resolved header is not
\* built from the resource-server token.
C5_ResolvedFromProvider ==
    (/\ GateRan /\ gateConfig.AUTH_ENABLED /\ GateValid
     /\ ~gateRequest.storeThrows
     /\ GateBearerToken \in StoredRsTokens)
        => /\ gateResult.outcome = "next"
           /\ gateResult.authContext.resolvedHeaders.authorization =
                 <<"Bearer", " ">> \o getByRsAccess(GateBearerToken).provider.access_token
           /\ gateResult.authContext.authHeaders.authorization =
                 gateRequest.headers.authorization
           /\ gateResult.authContext.resolvedHeaders.authorization #
                 <<"Bearer", " ">> \o GateBearerToken

\* a stored token presented in another letter case and behind a tab has
\* been resolved to its provider token
C5_Witness ==
    /\ gateRequest.headers.authorization = <<"BEARER", " ", "\t", "rsA">>
    /\ gateResult.outcome = "next"
    /\ gateResult.authContext.providerToken = <<"provA">>
    /\ gateResult.authContext.rsToken = <<"rsA">>

\* C6: a request that fails origin or protocol-version validation is
\* rejected before any credential lookup: no AuthContext is attached, no 401
\* Challenge is issued, no Mcp-Session-Id header is set and next() is not
\* called.
C6_RejectedBeforeLookup ==
    (GateRan /\ ~GateValid)
        => /\ gateResult.outcome = "json"
           /\ gateResult.status = 500
           /\ gateResult.body = "error -32603"
           /\ gateResult.lookups = 0
           /\ gateResult.authContext = NoAuthContext
           /\ gateResult.wwwAuthenticate = NoChallenge
           /\ gateResult.sessionId = Undefined

\* a request with a stored token and a session id, from an origin that is
\* not allowed, has been rejected by a server with authentication on
C6_Witness ==
    /\ GateRan
    /\ gateConfig.AUTH_ENABLED
    /\ gateConfig.NODE_ENV = "production"
    /\ gateRequest.headers.origin = <<"https://evil.example">>
    /\ gateRequest.headers.authorization = <<"Bearer", " ", "rsA">>
    /\ gateRequest.headers.sessionId = <<"s1">>
    /\ gateResult.status = 500

\* C7: when the Credential Store lookup for a presented Bearer token throws,
\* the gate's outcome is the outcome of the lookup returning no record: a
\* 401 Challenge when AUTH_REQUIRE_RS is set and AUTH_ALLOW_DIRECT_BEARER is
\* not, next() without AuthContext otherwise.
C7_ThrowIsNotFound ==
    (/\ GateRan /\ gateConfig.AUTH_ENABLED /\ GateValid
     /\ GateBearerToken # EmptyStr
     /\ gateRequest.storeThrows)
        => IF gateConfig.AUTH_REQUIRE_RS /\ ~gateConfig.AUTH_ALLOW_DIRECT_BEARER
           THEN /\ gateResult.outcome = "json"
                /\ gateResult.status = 401
                /\ gateResult.authContext = NoAuthContext
           ELSE /\ gateResult.outcome = "next"
                /\ gateResult.authContext = NoAuthContext

\* C8: when the presented Bearer token has no record in the Credential
\* Store, the gate answers with a 401 Challenge carrying a session id (the
\* one the request supplied, a fresh one when it supplied none, as in the
\* challenge of C4) and does not call next() if AUTH_REQUIRE_RS is
\* set and AUTH_ALLOW_DIRECT_BEARER is not; in every other configuration it
\* calls next() with no AuthContext attached.
C8_NotFoundBranch ==
    (/\ GateRan /\ gateConfig.AUTH_ENABLED /\ GateValid
     /\ GateBearerToken # EmptyStr
     /\ GateBearerToken \notin StoredRsTokens
     /\ ~gateRequest.storeThrows)
        => IF gateConfig.AUTH_REQUIRE_RS /\ ~gateConfig.AUTH_ALLOW_DIRECT_BEARER
           THEN /\ gateResult.outcome = "json"
                /\ gateResult.status = 401
                /\ gateResult.authContext = NoAuthContext
                /\ gateResult.sessionId = EchoedOrFresh
           ELSE /\ gateResult.outcome = "next"
                /\ gateResult.authContext = NoAuthContext
                /\ gateResult.sessionId = Undefined

-----------------------------------------------------------------------------
(* Properties of the routes, stated for Spec and SpecContext *)

\* C1: server.connect(transport) is invoked at most once for every
\* transport instance, over every interleaving of the POST, GET and DELETE
\* handlers.
C1_ConnectAtMostOnce == \A t \in Requests : tstate[t].connects <= 1

\* two requests are in flight on one transport, both past ensureConnected,
\* and the transport has been connected once
C1_Witness ==
    \E r1, r2 \in Requests :
        /\ r1 # r2
        /\ held[r1].transport # NoTransport
        /\ held[r1].transport = held[r2].transport
        /\ pc[r1] \in {"dispatch", "handling"}
        /\ pc[r2] \in {"dispatch", "handling"}
        /\ tstate[held[r1].transport].connects = 1

\* C2: the auth context a protocol handler retrieves from the context
\* registry by its request id is the one the gate resolved for that same
\* request, never that of another in-flight request, also when two requests
\* carry the same JSON-RPC id.
C2_ContextIsOwn ==
    \A r \in Requests :
        (retrieved[r].looked /\ retrieved[r].context.found)
            => retrieved[r].context.auth = gate[r].authContext

\* C3: once a session id is bound to a transport, every lookup of that id
\* returns the same transport until the id is deleted: no step rebinds an
\* existing key to a different transport.
C3_BindingStable ==
    [][\A sid \in DOMAIN transports :
          sid \in DOMAIN transports' => transports'[sid] = transports[sid]]_vars

\* a request other than a POST whose body is an initialize
NonInitialize(req) ==
    \/ req.method \in {"GET", "DELETE"}
    \/ req.method = "POST" /\ ~IsInitialize(req.body)

\* where a request is before its route handler has read the transports
\* registry: not arrived, waiting in the middleware, or waiting for its body
BeforeHandler == {"idle", "store", "json"}

\* the route handler of r runs in this step from the return of next(), or of
\* c.req.json() in a POST, to its next await or its return: the step in
\* which it reads the transports registry
ReachesRegistry(r) ==
    /\ pc[r] \in BeforeHandler
    /\ pc'[r] \notin BeforeHandler
    /\ gate'[r].outcome = "next"

\* C9: every non-initialize request (POST, GET or DELETE) without an
\* Mcp-Session-Id header is answered 405 with JSON-RPC error -32000; no
\* transport is created, connected or dispatched to for it.
C9_NoSessionIs405 ==
    \A r \in Requests :
        (/\ pc[r] # "idle"
         /\ gate[r].outcome = "next"
         /\ NonInitialize(request[r])
         /\ request[r].headers.sessionId = Undefined)
            => /\ pc[r] \in {"json", "done"}
               /\ pc[r] = "done" => response[r] = MethodNotAllowed
               /\ ~tstate[r].created
               /\ held[r] = NoHeld

\* C10: a non-initialize request that passes the gate with a session id
\* that is not a key of the transports registry is answered 404; no
\* transport is created, connected or dispatched to, and the registry is
\* unchanged, whatever the gate attached.
C10_UnknownSessionIs404 ==
    [][\A r \in Requests :
          (/\ ReachesRegistry(r)
           /\ NonInitialize(request'[r])
           /\ Truthy(request'[r].headers.sessionId)
           /\ request'[r].headers.sessionId \notin DOMAIN transports)
              => /\ pc'[r] = "done"
                 /\ response'[r] = InvalidSession
                 /\ ~tstate'[r].created
                 /\ held'[r] = NoHeld
                 /\ transports' = transports]_vars

-----------------------------------------------------------------------------
(* Properties of the session lifecycle, stated for SpecSession and SpecPair *)

\* a DELETE with session id sid was dispatched and its handler has returned
\* the transport's response
DeleteCompleted(sid) ==
    \E d \in DOMAIN pc :
        /\ request[d].method = "DELETE"
        /\ request[d].headers.sessionId = sid
        /\ pc[d] = "done"
        /\ held[d].dispatched
        /\ response[d].by = "transport"

\* the handler of r, reading the registry in this step, takes the transport bound to
\* its session id and goes on to dispatch to it
DispatchedToBound(r) ==
    /\ held'[r].transport = transports[request'[r].headers.sessionId]
    /\ pc'[r] \in {"connect", "dispatch"}

\* the handler of r, reading the registry in this step, answers 404 'Invalid session'
AnsweredInvalidSession(r) ==
    /\ pc'[r] = "done"
    /\ response'[r] = InvalidSession
    /\ held'[r] = NoHeld

\* C11 as stated: for a session id bound in the registry, a GET with that
\* id is dispatched to its transport; after a DELETE request with that id
\* has completed, every later GET or DELETE with the same id is answered
\* 404 'Invalid session' and the id is no longer a key of the registry.
C11_DeletedForGood ==
    [][\A r \in DOMAIN pc :
          (ReachesRegistry(r) /\ request'[r].method \in {"GET", "DELETE"})
              => LET sid == request'[r].headers.sessionId
                 IN  /\ (request'[r].method = "GET" /\ sid \in DOMAIN transports
                           /\ ~DeleteCompleted(sid))
                            => DispatchedToBound(r)
                     /\ DeleteCompleted(sid)
                            => /\ AnsweredInvalidSession(r)
                               /\ sid \notin DOMAIN transports']_vars

\* request r is a POST initialize whose transport generates session id sid
\* and registers it in this step
InitializeBinds(r, sid) ==
    /\ pc[r] = "dispatch" /\ pc'[r] = "handling"
    /\ request[r].method = "POST"
    /\ IsInitialize(request[r].body)
    /\ tstate[held[r].transport].sessionIdGenerator = sid

\* C11 as amended: a GET with a bound session id is dispatched to its
\* transport; the step that completes a DELETE with that id removes the id
\* from the registry; from then on the id becomes a key again only when an
\* initialize request binds it, and until then every GET or DELETE with the
\* id is answered 404 'Invalid session'.
C11_DeletedUntilInitialized ==
    [][/\ \A r \in DOMAIN pc :
             (ReachesRegistry(r) /\ request'[r].method \in {"GET", "DELETE"})
                 => LET sid == request'[r].headers.sessionId
                    IN  IF sid \in DOMAIN transports
                        THEN DispatchedToBound(r)
                        ELSE AnsweredInvalidSession(r) /\ transports' = transports
       /\ \A sid \in SessionIds :
             (~DeleteCompleted(sid) /\ DeleteCompleted(sid)')
                 => sid \notin DOMAIN transports'
       /\ \A sid \in SessionIds :
             (sid \notin DOMAIN transports /\ sid \in DOMAIN transports')
                 => \E r \in DOMAIN pc : InitializeBinds(r, sid)]_vars

\* a GET for s1 was served, then a DELETE for s1 completed, then a GET for
\* s1 was answered 404, and s1 is not a key of the registry
C11_Witness ==
    \E g1, d, g2 \in DOMAIN pc :
        /\ g1 < d /\ d < g2
        /\ request[g1].method = "GET" /\ request[g1].headers.sessionId = <<"s1">>
        /\ response[g1] = TransportResponse("served", Undefined)
        /\ request[d].method = "DELETE" /\ DeleteCompleted(<<"s1">>)
        /\ request[d].headers.sessionId = <<"s1">>
        /\ request[g2].method = "GET" /\ request[g2].headers.sessionId = <<"s1">>
        /\ response[g2] = InvalidSession
        /\ <<"s1">> \notin DOMAIN transports

-----------------------------------------------------------------------------
(* Properties of the OAuth endpoints, stated for SpecToken, SpecDiscovery *)
(* and SpecAuthorize                                                       *)

\* the first pair named `name` of the sequence of pairs carries value v
FirstIs(params, name, v) ==
    \E i \in 1..Len(params) :
        /\ params[i] = <<name, v>>
        /\ \A j \in 1..(i - 1) : params[j][1] # name

\* the sequence of pairs has the name, and its first value is not empty
Supplied(params, name) ==
    \E i \in 1..Len(params) :
        /\ params[i][1] = name
        /\ params[i][2] # EmptyStr
        /\ \A j \in 1..(i - 1) : params[j][1] # name

\* C12: buildTokenInput maps every token-request form to exactly one
\* outcome: grant_type=refresh_token without a non-empty refresh_token gives
\* missing_refresh_token; grant_type=authorization_code without a non-empty
\* code or code_verifier gives missing_code_or_verifier; any other or absent
\* grant_type gives unsupported_grant_type; only the remaining forms yield a
\* TokenInput, which carries the values of the form.
C12_TokenInputOutcome ==
    tokenInput # NoTokenInput =>
        LET refresh == FirstIs(tokenForm, "grant_type", <<"refresh_token">>)
            authCode == FirstIs(tokenForm, "grant_type", <<"authorization_code">>)
        IN  /\ (tokenInput.error = Undefined) # (tokenInput.grant = Undefined)
            /\ (refresh /\ ~Supplied(tokenForm, "refresh_token"))
                  => tokenInput = TokenError(<<"missing_refresh_token">>)
            /\ (authCode /\ ~(Supplied(tokenForm, "code")
                              /\ Supplied(tokenForm, "code_verifier")))
                  => tokenInput = TokenError(<<"missing_code_or_verifier">>)
            /\ (~refresh /\ ~authCode)
                  => tokenInput = TokenError(<<"unsupported_grant_type">>)
            /\ (refresh /\ Supplied(tokenForm, "refresh_token"))
                  => /\ tokenInput.error = Undefined
                     /\ tokenInput.grant = <<"refresh_token">>
                     /\ FirstIs(tokenForm, "refresh_token", tokenInput.refreshToken)
            /\ (authCode /\ Supplied(tokenForm, "code")
                         /\ Supplied(tokenForm, "code_verifier"))
                  => /\ tokenInput.error = Undefined
                     /\ tokenInput.grant = <<"authorization_code">>
                     /\ FirstIs(tokenForm, "code", tokenInput.code)
                     /\ FirstIs(tokenForm, "code_verifier", tokenInput.codeVerifier)

\* an authorization_code form with a code, whose first code_verifier is
\* empty and second is not, has been answered missing_code_or_verifier
C12_Witness ==
    /\ tokenForm = << <<"grant_type", <<"authorization_code">> >>,
                      <<"code", <<"codeA">> >>,
                      <<"code_verifier", EmptyStr>>,
                      <<"code_verifier", <<"verifierA">> >> >>
    /\ tokenInput = TokenError(<<"missing_code_or_verifier">>)

\* the base URL the proxy's own endpoints live under, for the server that
\* answered discoveryRequest
ProxyBase ==
    LET cfg == discoveryRequest.cfg
        url == discoveryRequest.requestUrl
        resource == cfg.AUTH_RESOURCE_URI
        nextPort == IF resource.port # 0 THEN resource.port + 1
                    ELSE IF resource.protocol = "https:" THEN 444 ELSE 81
    IN  CASE discoveryRequest.handler = "worker" -> url
          [] discoveryRequest.handler = "node" /\ resource # NoUrl ->
                [resource EXCEPT !.port = nextPort]
          [] discoveryRequest.handler = "node" /\ resource = NoUrl ->
                [url EXCEPT !.port = cfg.PORT + 1]
          [] discoveryRequest.handler = "authApp" /\ resource # NoUrl ->
                [resource EXCEPT !.port = nextPort]
          [] discoveryRequest.handler = "authApp" /\ resource = NoUrl -> url

\* C13: for every request URL and configuration, the authorization-server
\* metadata of the auth app and of createDiscoveryHandlers advertises
\* authorization_endpoint, token_endpoint and revocation_endpoint equal to
\* the resolved proxy base URL followed by /authorize, /token and /revoke,
\* never the configured upstream provider URLs.
C13_ProxyEndpoints ==
    discoveryMetadata # NoMetadata =>
        /\ discoveryMetadata.authorization_endpoint = [base |-> ProxyBase, path |-> "/authorize"]
        /\ discoveryMetadata.token_endpoint = [base |-> ProxyBase, path |-> "/token"]
        /\ discoveryMetadata.revocation_endpoint = [base |-> ProxyBase, path |-> "/revoke"]
        /\ \A e \in {discoveryMetadata.authorization_endpoint,
                     discoveryMetadata.token_endpoint,
                     discoveryMetadata.revocation_endpoint} :
              /\ e \notin {discoveryRequest.cfg.OAUTH_AUTHORIZATION_URL,
                           discoveryRequest.cfg.OAUTH_TOKEN_URL}
              /\ e.base \notin ProviderHosts

\* the node server, configured with an https resource URI without a port
\* and a provider, has advertised its endpoints on port 444 of that host
C13_Witness ==
    /\ discoveryRequest.handler = "node"
    /\ discoveryRequest.cfg.AUTH_RESOURCE_URI = ResourceUri
    /\ discoveryRequest.cfg.OAUTH_TOKEN_URL.base.hostname = "oauth2.googleapis.com"
    /\ discoveryMetadata.token_endpoint =
          [base |-> [protocol |-> "https:", hostname |-> "mcp.example.com", port |-> 444],
           path |-> "/token"]

\* C16: an authorize request whose code_challenge (or
\* code_challenge_method) query parameter is missing is rejected with an
\* error before any redirect to the provider is issued; the missing value is
\* not silently defaulted and passed on.
C16_MissingPkceRejected ==
    (/\ authorizeInput # NoAuthorizeInput
     /\ \/ ParamsGet(authorizeUrl.searchParams, "code_challenge") = Null
        \/ ParamsGet(authorizeUrl.searchParams, "code_challenge_method") = Null)
        => /\ authorizeInput.outcome = "error"
           /\ authorizeInput.codeChallenge # EmptyStr
           /\ authorizeInput.codeChallengeMethod # EmptyStr

-----------------------------------------------------------------------------
(* Properties of ensureConnected and the registry, stated for Spec and     *)
(* SpecSession                                                             *)

\* the call of ensureConnected(t) made by the handler of r0 has returned
EnsureConnectedReturned(r0, t) ==
    /\ held[r0].transport = t
    /\ \/ pc[r0] \in {"dispatch", "handling"}
       \/ pc[r0] = "done" /\ held[r0].dispatched

\* C14: calling ensureConnected on a transport whose earlier
\* ensureConnected call has completed successfully performs no further
\* server.connect call: the transport has been connected exactly once and
\* stays at one connect.
C14_SecondCallConnectsNot ==
    [][\A r \in DOMAIN pc :
          (pc[r] \in BeforeHandler /\ pc'[r] \in {"connect", "dispatch"})
              => LET t == held'[r].transport
                 IN  (\E r0 \in DOMAIN pc \ {r} : EnsureConnectedReturned(r0, t))
                        => /\ tstate[t].connects = 1
                           /\ tstate'[t].connects = 1
                           /\ pc'[r] = "dispatch"]_vars

\* two handlers, one after the other, went through ensureConnected on the
\* same transport; only the first called server.connect
C14_Witness ==
    \E r1, r2 \in DOMAIN pc :
        /\ r1 < r2
        /\ held[r1].transport # NoTransport
        /\ held[r1].transport = held[r2].transport
        /\ held[r1].connectCalled /\ ~held[r2].connectCalled
        /\ pc[r1] = "done" /\ pc[r2] = "done"
        /\ held[r1].dispatched /\ held[r2].dispatched
        /\ tstate[held[r1].transport].connects = 1

\* C15: every auth-context entry that a POST request creates in the context
\* registry is discarded once that request's response has been produced, on
\* success and on the error path: the registry holds no entry of a finished
\* request.
C15_ContextDiscarded ==
    \A r \in DOMAIN pc :
        pc[r] = "done"
            => \A id \in DOMAIN contextRegistry : contextRegistry[id].owner # r

\* C17: a session id is inserted into the transports registry only by the
\* onsessioninitialized callback fired while the transport handles an
\* initialize request, never at transport construction; a POST that fails
\* before the transport confirms session establishment leaves the registry
\* unchanged, and each constructed transport is inserted at most once (it is
\* inserted when it turns initialized, and stays initialized).
C17_RegisteredOnInitialize ==
    [][/\ \A sid \in DOMAIN transports' :
             (sid \notin DOMAIN transports \/ transports[sid] # transports'[sid])
                 => \E r \in DOMAIN pc :
                       /\ InitializeBinds(r, sid)
                       /\ transports'[sid] = held[r].transport
                       /\ ~tstate[held[r].transport].initialized
                       /\ tstate'[held[r].transport].initialized
       /\ \A r \in DOMAIN pc :
             (pc[r] \in BeforeHandler /\ pc'[r] # pc[r]) => transports' = transports
       /\ \A r \in DOMAIN pc :
             (pc[r] # "done" /\ pc'[r] = "done" /\ response'[r] = InternalServerError)
                 => transports' = transports
       /\ \A t \in DOMAIN tstate :
             tstate[t].initialized => tstate'[t].initialized]_vars

\* one initialize POST failed in server.connect and its transport is bound
\* to no session id, while another initialize POST registered its transport
C17_Witness ==
    \E r1, r2 \in DOMAIN pc :
        /\ IsInitialize(request[r1].body) /\ IsInitialize(request[r2].body)
        /\ pc[r1] = "done" /\ response[r1] = InternalServerError
        /\ held[r1].connectCalled /\ ~held[r1].dispatched
        /\ \A sid \in DOMAIN transports : transports[sid] # held[r1].transport
        /\ \E sid \in DOMAIN transports : transports[sid] = held[r2].transport
        /\ tstate[held[r2].transport].onsessioninitialized

\* the DELETE handler of r returns from its dispatch in this step
DeleteReturns(r) ==
    /\ request[r].method = "DELETE"
    /\ pc[r] = "handling" /\ pc'[r] = "done"
    /\ held[r].dispatched
    /\ response'[r].by = "transport"

\* C18: on DELETE for a registered session the handler first dispatches the
\* request to the transport, and only after that dispatch has returned
\* removes the session id from the registry and closes the transport; if
\* connect or the dispatch throws, the response is the 500 / -32603 envelope
\* and the handler leaves the id bound and the transport unclosed.
C18_DeleteAfterDispatch ==
    [][/\ \A sid \in DOMAIN transports :
             sid \notin DOMAIN transports'
                 => \E r \in DOMAIN pc :
                       DeleteReturns(r) /\ request[r].headers.sessionId = sid
       /\ \A t \in DOMAIN tstate :
             tstate'[t].closes # tstate[t].closes
                 => \E r \in DOMAIN pc :
                       /\ DeleteReturns(r) /\ held[r].transport = t
                       /\ request[r].headers.sessionId \notin DOMAIN transports'
       /\ \A r \in DOMAIN pc :
             (/\ request[r].method = "DELETE"
              /\ pc[r] \in {"connect", "dispatch", "handling"}
              /\ pc'[r] = "done")
                 => \/ /\ DeleteReturns(r)
                       /\ request[r].headers.sessionId \notin DOMAIN transports'
                       /\ tstate'[held[r].transport].closes =
                             tstate[held[r].transport].closes + 1
                    \/ /\ response'[r] = InternalServerError
                       /\ transports' = transports
                       /\ tstate' = tstate]_vars

\* the dispatch of a DELETE for a registered session threw: the handler
\* answered 500 and the id is bound to the transport it held, unclosed
C18_Witness ==
    \E r \in DOMAIN pc :
        /\ request[r].method = "DELETE"
        /\ pc[r] = "done" /\ held[r].dispatched
        /\ response[r] = InternalServerError
        /\ request[r].headers.sessionId \in DOMAIN transports
        /\ transports[request[r].headers.sessionId] = held[r].transport
        /\ tstate[held[r].transport].closes = 0

\* the session id the request of r is handled for, in a step of r: the id
\* of its header, else the id planned for the transport it constructed
SessionOfStep(r) ==
    IF Truthy(request'[r].headers.sessionId)
    THEN request'[r].headers.sessionId
    ELSE IF held'[r].transport # NoTransport
         THEN tstate'[held'[r].transport].sessionIdGenerator
         ELSE Undefined

\* C19: a step of a request handled for session id A (POST, GET or DELETE,
\* succeeding or failing) leaves unchanged the registry binding, the
\* connected status and the closed status of every other session id B; a
\* failure while handling A is answered with the 500 error response.
C19_OtherSessionsUntouched ==
    [][\A r \in DOMAIN pc :
          pc'[r] # pc[r]
              => /\ \A B \in DOMAIN transports \ {SessionOfStep(r)} :
                       /\ B \in DOMAIN transports'
                       /\ transports'[B] = transports[B]
                       /\ (transports[B] \in connectedTransports')
                             = (transports[B] \in connectedTransports)
                       /\ tstate'[transports[B]].closes = tstate[transports[B]].closes
                 /\ \A B \in DOMAIN transports' \ {SessionOfStep(r)} :
                       B \in DOMAIN transports
                 /\ (pc[r] \in {"connect", "handling"} /\ pc'[r] = "done"
                     /\ response'[r].by # "transport")
                       => response'[r] = InternalServerError]_vars

\* session s2 is bound, connected and not closed after session s1 was
\* established and a DELETE for s1 removed and closed its transport
C19_Witness ==
    /\ <<"s2">> \in DOMAIN transports
    /\ transports[<<"s2">>] \in connectedTransports
    /\ tstate[transports[<<"s2">>]].closes = 0
    /\ <<"s1">> \notin DOMAIN transports
    /\ DeleteCompleted(<<"s1">>)
    /\ \E t \in DOMAIN tstate :
          tstate[t].sessionId = <<"s1">> /\ tstate[t].closes = 1

\* C20: each transport that is a value of the transports registry is in
\* connectedTransports: a server.connect call has completed for it.
C20_RegisteredAreConnected ==
    \A sid \in DOMAIN transports : transports[sid] \in connectedTransports

\* two session ids are bound to two different connected transports
C20_Witness ==
    \E a, b \in DOMAIN transports :
        /\ a # b
        /\ transports[a] # transports[b]
        /\ {transports[a], transports[b]} \subseteq connectedTransports
        /\ tstate[transports[a]].connects = 1
        /\ tstate[transports[b]].connects = 1

\* C21: no request is dispatched to a transport after that transport has
\* been closed, and each transport is closed at most once, under every
\* interleaving of GET, POST and DELETE requests on the same session id.
C21_NoDispatchAfterClose ==
    \A t \in DOMAIN tstate :
        /\ ~tstate[t].dispatchedClosed
        /\ tstate[t].closes <= 1

\* C22: when server.connect throws inside ensureConnected, the transport is
\* not recorded as connected and the request is answered with the 500 /
\* -32603 envelope without being dispatched to the transport; a request
\* that later reaches ensureConnected with a transport that is not recorded
\* as connected invokes server.connect for it.
C22_FailedConnectNotRecorded ==
    [][\A r \in DOMAIN pc :
          /\ (pc[r] = "connect" /\ pc'[r] = "done")
                => /\ response'[r] = InternalServerError
                   /\ held[r].transport \notin connectedTransports'
                   /\ connectedTransports' = connectedTransports
                   /\ ~held'[r].dispatched
                   /\ tstate'[held[r].transport].dispatches =
                         tstate[held[r].transport].dispatches
          /\ (pc[r] \in BeforeHandler /\ pc'[r] \in {"connect", "dispatch"}
              /\ held'[r].transport \notin connectedTransports)
                => /\ pc'[r] = "connect"
                   /\ held'[r].connectCalled
                   /\ tstate'[held'[r].transport].connects =
                         tstate[held'[r].transport].connects + 1]_vars

\* the connect of an initialize for a session id threw and the request was
\* answered 500 undispatched, its transport not recorded; a later request
\* with the same session id has invoked server.connect again
C22_Witness ==
    \E r1, r2 \in DOMAIN pc :
        /\ r1 < r2
        /\ pc[r1] = "done" /\ response[r1] = InternalServerError
        /\ held[r1].connectCalled /\ ~held[r1].dispatched
        /\ held[r1].transport \notin connectedTransports
        /\ tstate[held[r1].transport].dispatches = 0
        /\ Truthy(request[r1].headers.sessionId)
        /\ request[r2].headers.sessionId = request[r1].headers.sessionId
        /\ held[r2].connectCalled
        /\ tstate[held[r2].transport].connects = 1

\* a transport whose connect threw is held by the request that constructed
\* it and by no other, and is bound to no session id
FailedTransportUnreachable ==
    \A r \in DOMAIN pc :
        (pc[r] = "done" /\ held[r].connectCalled /\ ~held[r].dispatched)
            => /\ \A r2 \in DOMAIN pc \ {r} : held[r2].transport # held[r].transport
               /\ \A sid \in DOMAIN transports : transports[sid] # held[r].transport

====
